---------------------------- MODULE Spec2Model ----------------------------
(***************************************************************************)
(* A model of the file organisation tools of src/server/file_manager.py:   *)
(* find_duplicate_files, organize_files_by_type, batch_rename_files and    *)
(* get_directory_statistics, each run against a small file system.         *)
(*                                                                         *)
(* A path is a sequence of names, a name is a string.  The file system fs  *)
(* maps each existing path to its entry.  One invocation of a tool is a    *)
(* run of its actions: the existence check, one action per iteration of    *)
(* its loop (the entry is picked in any order, the order of rglob and      *)
(* iterdir being unspecified), and the report.  organize_files_by_type     *)
(* writes into the tree it may be walking, so its rglob lists each         *)
(* directory when it reaches it.  A file system call that fails raises the *)
(* exception of the entry's mode; a tool that catches an exception ends    *)
(* with an "error" result.                                                 *)
(***************************************************************************)
EXTENDS Integers, Sequences, FiniteSets, TLC

VARIABLES
    fs,              \* path -> entry: the file system
    pc,              \* "start", "loop", "done": the invocation's position
    todo,            \* entries of the traversal not yet visited
    result,          \* what the invocation returned (once pc = "done")
    directory,       \* argument: the root (find_duplicate_files,
                     \*   batch_rename_files, get_directory_statistics)
    min_size,        \* argument of find_duplicate_files
    file_hashes,     \* find_duplicate_files: digest -> list of paths
    total_files,     \* find_duplicate_files: files counted as scanned
    source_dir,      \* argument of organize_files_by_type
    target_dir,      \* argument of organize_files_by_type
    moved_files,     \* organize_files_by_type: category -> count
    walk,            \* organize_files_by_type: the position of rglob
    pattern,         \* argument of batch_rename_files
    replacement,     \* argument of batch_rename_files
    file_extensions, \* argument of batch_rename_files (a list, or None)
    renamed_files,   \* batch_rename_files: the list of <<old, new>>
    stats,           \* get_directory_statistics: the running record
    ext,             \* category lookup: the file's suffix
    category,        \* category lookup: the category found
    fs0,             \* the file system when the invocation began
    op,              \* the tool invoked (its function's name)
    calls,           \* two invocations in one process: the state of each
    running          \* two invocations: the one the event loop runs, or 0

vars == <<fs, pc, todo, result, directory, min_size, file_hashes,
          total_files, source_dir, target_dir, moved_files, pattern,
          replacement, file_extensions, renamed_files, stats, ext,
          category, fs0, op, walk, calls, running>>

(***************************************************************************)
(* Bounds of the model.                                                    *)
(***************************************************************************)
\* the most regular files a tree holds
MaxFiles == 3
\* the read size of get_file_hash: 4096 bytes in the source, scaled to the
\* content lengths of the model so that a file can span several reads
BlockSize == 2

None == "None"

(***************************************************************************)
(* Strings: what pathlib, str.lower and re.sub do to a file name.          *)
(***************************************************************************)
Max(S) == CHOOSE x \in S : \A y \in S : y <= x

CharAt(s, i) == SubSeq(s, i, i)

\* str.rfind('.'), 1-based; 0 when there is no dot
RFindDot(name) ==
    LET D == {j \in 1..Len(name) : CharAt(name, j) = "."}
    IN  IF D = {} THEN 0 ELSE Max(D)

\* PurePath.suffix: the last dot and what follows, unless the dot is the
\* first or the last character of the name
Suffix(name) ==
    LET j == RFindDot(name)
    IN  IF 1 < j /\ j < Len(name) THEN SubSeq(name, j, Len(name)) ELSE ""

\* PurePath.stem
Stem(name) ==
    LET j == RFindDot(name)
    IN  IF 1 < j /\ j < Len(name) THEN SubSeq(name, 1, j - 1) ELSE name

UpperAlpha == "ABCDEFGHIJKLMNOPQRSTUVWXYZ"
LowerAlpha == "abcdefghijklmnopqrstuvwxyz"

LowerChar(c) ==
    LET I == {i \in 1..Len(UpperAlpha) : CharAt(UpperAlpha, i) = c}
    IN  IF I = {} THEN c ELSE CharAt(LowerAlpha, CHOOSE i \in I : TRUE)

RECURSIVE Lower(_)
\* str.lower
Lower(s) == IF s = "" THEN "" ELSE LowerChar(Head(s)) \o Lower(Tail(s))

RECURSIVE ReSubFrom(_, _, _, _)
\* re.sub from position i on, for a pattern without metacharacters: the
\* leftmost non-overlapping occurrences are replaced; the empty pattern
\* matches before every character and at the end
ReSubFrom(pat, repl, s, i) ==
    IF i > Len(s) THEN (IF pat = "" THEN repl ELSE "")
    ELSE IF pat = "" THEN repl \o CharAt(s, i) \o ReSubFrom(pat, repl, s, i + 1)
    ELSE IF i + Len(pat) - 1 <= Len(s) /\ SubSeq(s, i, i + Len(pat) - 1) = pat
         THEN repl \o ReSubFrom(pat, repl, s, i + Len(pat))
         ELSE CharAt(s, i) \o ReSubFrom(pat, repl, s, i + 1)

ReSub(pat, repl, s) == ReSubFrom(pat, repl, s, 1)

Digits == "0123456789"

RECURSIVE Str(_)
\* str(counter), for a counter >= 0
Str(n) ==
    IF n < 10 THEN CharAt(Digits, n + 1)
    ELSE Str(n \div 10) \o CharAt(Digits, (n % 10) + 1)

(***************************************************************************)
(* The file system.                                                        *)
(***************************************************************************)
Dir == [kind |-> "dir", data |-> "", mtime |-> 0, mode |-> "ok"]
File(data, mtime, mode) ==
    [kind |-> "file", data |-> data, mtime |-> mtime, mode |-> mode]

Name(p) == p[Len(p)]
Parent(p) == SubSeq(p, 1, Len(p) - 1)
Join(d, name) == Append(d, name)

Exists(f, p) == p \in DOMAIN f
\* a check that takes every path for an existing one
PathAssumed(f, p) == TRUE
\* Path.exists()
PathExists(f, p) == Exists(f, p)
IsFile(f, p) == Exists(f, p) /\ f[p].kind = "file"
IsDir(f, p) == Exists(f, p) /\ f[p].kind = "dir"
\* st_size
Size(f, p) == Len(f[p].data)

\* The mode of a file says which calls on it fail:
\*   "ok"        none;
\*   "noaccess"  stat raises PermissionError (the file's directory may be
\*               listed, not searched), and so does is_file();
\*   "nostat"    is_file() answers, a later stat raises (the file became
\*               inaccessible in between);
\*   "noread"    open for reading raises;
\*   "ioerr"     open succeeds, the read raises;
\*   "norename"  rename raises PermissionError.
\* Path.is_file() re-raises every OSError but ENOENT, ENOTDIR, EBADF, ELOOP
IsFileRaises(f, p) == IsFile(f, p) /\ f[p].mode = "noaccess"
\* Path.stat() raises
StatRaises(f, p) == f[p].mode \in {"nostat", "noaccess"}
\* open(path, 'rb') or a read of the file raises
ReadRaises(f, p) == f[p].mode \in {"noread", "ioerr"}

IsUnder(root, p) == Len(p) > Len(root) /\ SubSeq(p, 1, Len(root)) = root

\* Path.rglob('*'): every entry below the root; nothing when the root is
\* not a directory
RGlob(f, root) ==
    IF IsDir(f, root) THEN {p \in DOMAIN f : IsUnder(root, p)} ELSE {}

\* Path.iterdir: the entries of one directory
IterDir(f, d) == {p \in DOMAIN f : Len(p) > 0 /\ Parent(p) = d}

\* the function f with path p (re)bound to entry e
Put(f, p, e) == [q \in DOMAIN f \cup {p} |-> IF q = p THEN e ELSE f[q]]
\* the function f without path p
Remove(f, p) == [q \in DOMAIN f \ {p} |-> f[q]]

(***************************************************************************)
(* Results.  Every tool wraps its body in try ... except Exception and     *)
(* returns the text "Error ...: <message>" from the handler.               *)
(***************************************************************************)
\* an exception that leaves the tool
Uncaught(exc) == [status |-> "raised", exc |-> exc]
\* except Exception as e: return f"Error ...: {str(e)}"
Caught(exc) == [status |-> "error", exc |-> exc]

\* "... does not exist."
NotFound == [status |-> "notfound"]

(***************************************************************************)
(* The trees the invocations run on.  The root <<"d">> is a directory with *)
(* one subdirectory; <<"e">> is an empty directory; <<"f">> is a regular   *)
(* file; <<"nx">> does not exist.                                          *)
(***************************************************************************)
RootDir == <<"d">>
EmptyDir == <<"e">>
PlainFile == <<"f">>
Missing == <<"nx">>

BaseEntries == {RootDir, <<"d", "u">>, EmptyDir, PlainFile}

BaseTree ==
    [p \in BaseEntries |-> IF p = PlainFile THEN File("X", 1, "ok") ELSE Dir]

\* the base tree with the files of assignment a (index -> entry) at the
\* first paths of the list
MkTree(paths, a) ==
    [p \in BaseEntries \cup {paths[i] : i \in DOMAIN a} |->
        IF p \in BaseEntries THEN BaseTree[p]
        ELSE a[CHOOSE i \in DOMAIN a : paths[i] = p]]

Trees(paths, entries) ==
    UNION {{MkTree(paths, a) : a \in [1..n -> entries]} : n \in 0..MaxFiles}

(***************************************************************************)
(* find_duplicate_files                                                    *)
(***************************************************************************)
\* the bytes of the model's file contents
ByteVal(c) == CASE c = "X" -> 1 [] c = "Y" -> 2
ByteBase == Cardinality({"X", "Y"})

RECURSIVE Md5Update(_, _)
\* hashlib's update: the state absorbs the chunk byte by byte.  MD5 is
\* modelled as collision-free on the contents of the model: the state is
\* the bijective base-ByteBase numeral of the bytes absorbed so far.
Md5Update(h, chunk) ==
    IF chunk = "" THEN h
    ELSE Md5Update(h * ByteBase + ByteVal(Head(chunk)), Tail(chunk))

\* f.read(4096): the next chunk, empty at the end of the file
ReadChunk(data, pos) ==
    SubSeq(data, pos, IF pos + BlockSize - 1 <= Len(data)
                      THEN pos + BlockSize - 1 ELSE Len(data))

RECURSIVE HashFrom(_, _, _)
\* the loop of get_file_hash: read chunks until the empty one
HashFrom(data, pos, h) ==
    IF ReadChunk(data, pos) = "" THEN h
    ELSE HashFrom(data, pos + BlockSize, Md5Update(h, ReadChunk(data, pos)))

\* a hash that stops after the first chunk
HashFirstChunk(data) == Md5Update(0, ReadChunk(data, 1))
\* get_file_hash: the digest of a file's content
GetFileHash(data) == HashFrom(data, 1, 0)

\* a size filter that drops files of exactly min_size bytes
SizeAboveMin(size, min) == size > min
\* file_size >= min_size
SizeEligible(size, min) == size >= min

\* file_hashes[file_hash].append(file_path) on a defaultdict(list)
AppendTo(fh, h, p) ==
    [k \in DOMAIN fh \cup {h} |->
        IF k = h THEN (IF h \in DOMAIN fh THEN Append(fh[h], p) ELSE <<p>>)
        ELSE fh[k]]

\* a filter that keeps every digest
AllGroups(fh) == DOMAIN fh
\* a filter that asks for more than two files
GroupsOverTwo(fh) == {h \in DOMAIN fh : Len(fh[h]) > 2}
\* the digests kept by the filter: len(files) > 1
DuplicateHashes(fh) == {h \in DOMAIN fh : Len(fh[h]) > 1}

\* the groups reported: for each digest kept, the size of its first file
\* and its files
DuplicateGroups(f, fh) ==
    {[hash |-> h, size |-> Size(f, fh[h][1]), files |-> fh[h]] :
        h \in DuplicateHashes(fh)}

\* contents: the empty file and two files of three bytes that differ in
\* the last byte only
DupContents == {"", "XYX", "XYY"}
\* what happens to a file met by the traversal: "nostat" is a file whose
\* stat() raises after is_file() answered, "noread" one whose open or
\* read raises
DupModes == {"ok", "noread", "nostat", "noaccess"}
\* the files of a tree: a file of each content on which every call
\* succeeds, a file for each failure, and an empty file that cannot be read
DupEntries ==
    {File(d, 1, "ok") : d \in DupContents}
    \cup {File("XYX", 1, m) : m \in DupModes \ {"ok"}}
    \cup {File("", 1, "noread")}
DupPaths == << <<"d", "a">>, <<"d", "u", "b">>, <<"d", "c">>,
               <<"d", "u", "e">>, <<"d", "g">> >>
DupMinSizes == {0, 3}
DupRoots == {RootDir, PlainFile, Missing}

\* the values of the variables an invocation does not use
IdleDup == file_hashes = <<>> /\ total_files = 0 /\ min_size = 0
IdleOrg == source_dir = None /\ target_dir = None /\ moved_files = <<>>
           /\ walk = <<>>
IdleRen == pattern = None /\ replacement = None /\ file_extensions = None
           /\ renamed_files = <<>>
IdleStat == stats = None
IdleCat == ext = None /\ category = None
IdlePair == calls = <<>> /\ running = 0

dupVars == <<file_hashes, total_files, min_size>>
orgVars == <<source_dir, target_dir, moved_files, walk>>
renVars == <<pattern, replacement, file_extensions, renamed_files>>
statVars == <<stats>>
catVars == <<ext, category>>
pairVars == <<calls, running>>

InitDupOn(trees) ==
    /\ fs \in trees
    /\ fs0 = fs
    /\ directory \in DupRoots
    /\ min_size \in DupMinSizes
    /\ op = "find_duplicate_files"
    /\ pc = "start" /\ todo = {} /\ result = None
    /\ file_hashes = <<>> /\ total_files = 0
    /\ IdleOrg /\ IdleRen /\ IdleStat /\ IdleCat /\ IdlePair

\* lines 236-250: the existence check, then the traversal begins
InitDup == InitDupOn(Trees(DupPaths, DupEntries))

DupStart ==
    /\ pc = "start"
    /\ IF ~PathExists(fs, directory)
       THEN /\ result' = NotFound
            /\ pc' = "done"
            /\ todo' = todo
       ELSE /\ todo' = RGlob(fs, directory)
            /\ pc' = "loop"
            /\ result' = result
    /\ UNCHANGED <<fs, fs0, op, directory, dupVars, orgVars, renVars, statVars,
                   catVars, pairVars>>

\* lines 252-261: one iteration of the loop, on entry p.  is_file() is
\* called outside the try block: when it raises, the invocation ends in
\* the handler of line 279.  Inside the try block a file whose stat fails
\* is skipped; a file of at least min_size bytes is counted, then hashed,
\* and a file whose read fails is skipped after the count.
DupVisit(p) ==
    /\ pc = "loop"
    /\ p \in todo
    /\ todo' = todo \ {p}
    /\ IF IsFileRaises(fs, p)
       THEN /\ result' = Caught("PermissionError")
            /\ pc' = "done"
            /\ UNCHANGED <<file_hashes, total_files>>
       ELSE /\ IF IsFile(fs, p) /\ ~StatRaises(fs, p)
                  /\ SizeEligible(Size(fs, p), min_size)
               THEN /\ total_files' = total_files + 1
                    /\ file_hashes' =
                        IF ReadRaises(fs, p) THEN file_hashes
                        ELSE AppendTo(file_hashes, GetFileHash(fs[p].data), p)
               ELSE UNCHANGED <<file_hashes, total_files>>
            /\ UNCHANGED <<pc, result>>
    /\ UNCHANGED <<fs, fs0, op, directory, min_size, orgVars, renVars,
                   statVars, catVars, pairVars>>

\* lines 263-277: the filter and the report
DupReport ==
    /\ pc = "loop"
    /\ todo = {}
    /\ pc' = "done"
    /\ result' = IF DuplicateHashes(file_hashes) = {}
                 THEN [status |-> "none", scanned |-> total_files]
                 ELSE [status |-> "found", scanned |-> total_files,
                       groups |-> DuplicateGroups(fs, file_hashes)]
    /\ UNCHANGED <<fs, fs0, op, todo, directory, dupVars, orgVars, renVars,
                   statVars, catVars, pairVars>>

NextDup ==
    \/ DupStart
    \/ \E p \in todo : DupVisit(p)
    \/ DupReport

SpecDup == InitDup /\ [][NextDup]_vars

(***************************************************************************)
(* Properties of find_duplicate_files (checked under SpecDup).             *)
(***************************************************************************)
Range(s) == {s[i] : i \in DOMAIN s}

\* the regular files below the root of the invocation
FilesUnder(f, root) == {p \in RGlob(f, root) : IsFile(f, p)}

\* the invocation of find_duplicate_files returned a scan result
DupReturned == pc = "done" /\ result.status \in {"found", "none"}

\* the groups of the result (none when no duplicates were reported)
ReportedGroups == IF result.status = "found" THEN result.groups ELSE {}

\* two distinct files of the tree with the same bytes, both of at least
\* min_size bytes and both readable
IdenticalPair(p, q) ==
    /\ p # q
    /\ fs[p].data = fs[q].data
    /\ Size(fs, p) >= min_size
    /\ fs[p].mode = "ok" /\ fs[q].mode = "ok"

C2_GroupsHaveTwoMembers ==
    DupReturned =>
        /\ \A g \in ReportedGroups :
            Len(g.files) >= 2 /\ Cardinality(Range(g.files)) = Len(g.files)
        /\ \A h \in DOMAIN file_hashes :
            Len(file_hashes[h]) = 1 =>
                \A g \in ReportedGroups :
                    g.hash # h /\ file_hashes[h][1] \notin Range(g.files)
        /\ (\A h \in DOMAIN file_hashes : Len(file_hashes[h]) < 2)
                => result.status = "none"
        /\ result.status = "found" => result.groups # {}

\* the scan returned a group while another digest has a single file
C2_Witness ==
    /\ DupReturned
    /\ result.status = "found"
    /\ \E h \in DOMAIN file_hashes : Len(file_hashes[h]) = 1

\* the files that count as scanned: those whose stat succeeds and whose
\* size is at least min_size
Countable(f, root, min) ==
    {p \in FilesUnder(f, root) : ~StatRaises(f, p) /\ Size(f, p) >= min}

\* C3: with min_size = S, no file smaller than S is in a digest bucket or
\* in a reported group, and the scanned total counts exactly the visited
\* files whose size is at least S (a file of exactly S bytes included).
C3_MinSizeRespected ==
    pc \in {"loop", "done"} /\ IsDir(fs, directory) =>
        /\ \A h \in DOMAIN file_hashes :
            \A p \in Range(file_hashes[h]) : Size(fs, p) >= min_size
        /\ total_files =
            Cardinality(Countable(fs, directory, min_size) \ todo)
        /\ DupReturned =>
            /\ result.scanned = total_files
            /\ \A g \in ReportedGroups :
                \A p \in Range(g.files) : Size(fs, p) >= min_size

\* the scan returned a group of files of exactly min_size bytes, and the
\* tree holds a readable file smaller than min_size
C3_Witness ==
    /\ DupReturned
    /\ min_size > 0
    /\ \E g \in ReportedGroups : g.size = min_size
    /\ \E p \in FilesUnder(fs, directory) :
        Size(fs, p) < min_size /\ fs[p].mode = "ok"

\* C4: in every reported group all members have the same content and the
\* same size, which is the size reported for the group.
C4_GroupsHomogeneous ==
    DupReturned =>
        \A g \in ReportedGroups :
            \A p, q \in Range(g.files) :
                /\ fs[p].data = fs[q].data
                /\ Size(fs, p) = Size(fs, q)
                /\ g.size = Size(fs, p)

\* the scan returned a group, and a hashed file of the same size but of
\* another content is in no group
C4_Witness ==
    /\ DupReturned
    /\ \E g \in ReportedGroups :
        \E p \in FilesUnder(fs, directory) :
            /\ fs[p].mode = "ok"
            /\ Size(fs, p) = g.size
            /\ fs[p].data # fs[g.files[1]].data
            /\ \A g2 \in ReportedGroups : p \notin Range(g2.files)

\* the files below the root on which every call succeeds and that are of
\* at least min_size bytes
Hashable == {p \in Countable(fs0, directory, min_size) : fs0[p].mode = "ok"}

\* the groups of a scan of the hashable files alone: the sets of two or
\* more of them that have the same content
GroupsWithoutFailing ==
    {G \in {{q \in Hashable : fs0[q].data = fs0[p].data} : p \in Hashable} :
        Cardinality(G) > 1}

\* C17: a file whose stat, open or read fails never aborts the scan of a
\* directory: the scan returns its report, the failing file is in no
\* group, and the groups are those of the same tree without that file.
C17_FailingFileSkipped ==
    (pc = "done" /\ IsDir(fs0, directory)) =>
        /\ DupReturned
        /\ {Range(g.files) : g \in ReportedGroups} = GroupsWithoutFailing

\* the files whose digest was computed and entered into the grouping:
\* the members of all the buckets, those of one member included
Bucketed == UNION {Range(file_hashes[h]) : h \in DOMAIN file_hashes}

\* C26: the count of scanned files that find_duplicate_files reports is
\* the number of files whose digest was computed and entered into the
\* grouping (the sizes of all the buckets together): a file that could
\* not be opened or read is not counted.
C26_ScannedAreHashed ==
    DupReturned => result.scanned = Cardinality(Bucketed)

(***************************************************************************)
(* organize_files_by_type: the category table and its lookup               *)
(***************************************************************************)
\* lines 301-310: the table, in the order the dict is scanned
Categories == <<
    [name |-> "Images",
     extensions |-> <<".jpg", ".jpeg", ".png", ".gif", ".bmp", ".svg",
                      ".webp">>],
    [name |-> "Documents",
     extensions |-> <<".pdf", ".doc", ".docx", ".txt", ".md", ".odt">>],
    [name |-> "Spreadsheets",
     extensions |-> <<".xls", ".xlsx", ".csv", ".ods">>],
    [name |-> "Videos",
     extensions |-> <<".mp4", ".avi", ".mkv", ".mov", ".wmv", ".flv">>],
    [name |-> "Audio",
     extensions |-> <<".mp3", ".wav", ".flac", ".aac", ".ogg", ".m4a">>],
    [name |-> "Archives",
     extensions |-> <<".zip", ".rar", ".7z", ".tar", ".gz">>],
    [name |-> "Code",
     extensions |-> <<".py", ".js", ".java", ".cpp", ".c", ".h", ".cs",
                      ".html", ".css">>],
    [name |-> "Others", extensions |-> <<>>] >>

RECURSIVE ScanCategories(_, _, _)
\* lines 319-323: category = 'Others', then the first category of the
\* table (from its i-th on) that lists the extension replaces it
ScanCategories(e, table, i) ==
    IF i > Len(table) THEN "Others"
    ELSE IF e \in Range(table[i].extensions) THEN table[i].name
    ELSE ScanCategories(e, table, i + 1)

\* a lookup that compares the suffix as it is spelled in the file name
CategoryOfRaw(suffix) == ScanCategories(suffix, Categories, 1)
\* lines 316-323: the category of a file with this suffix; the suffix is
\* lower-cased first
CategoryOf(suffix) == ScanCategories(Lower(suffix), Categories, 1)

\* every extension of the table
TableExtensions ==
    UNION {Range(Categories[i].extensions) : i \in 1..Len(Categories)}

\* the suffixes looked up: those of the table, some of them in upper or
\* mixed case, the empty suffix and some the table does not list
CatSuffixes ==
    TableExtensions \cup
    {"", ".PNG", ".Jpg", ".TXT", ".Md", ".C", ".H", ".PY", ".GZ", ".xyz",
     ".tgz", ".jpe", ".p", ".cc", ".mp", ".htm", ".RS", ".7Z"}

InitCat ==
    /\ ext \in CatSuffixes
    /\ category = None
    /\ pc = "start" /\ result = None /\ todo = {}
    /\ fs = <<>> /\ fs0 = <<>> /\ directory = None /\ op = None
    /\ IdleDup /\ IdleOrg /\ IdleRen /\ IdleStat /\ IdlePair

\* the lookup of one file's category
CatLookup ==
    /\ pc = "start"
    /\ category' = CategoryOf(ext)
    /\ pc' = "done"
    /\ UNCHANGED <<fs, fs0, op, todo, result, directory, ext, dupVars, orgVars,
                   renVars, statVars, pairVars>>

\* the lookup of the same suffix for another file
CatLookupAgain ==
    /\ pc = "done"
    /\ result = None
    /\ result' = CategoryOf(ext)
    /\ UNCHANGED <<fs, fs0, op, todo, pc, directory, ext, category, dupVars,
                   orgVars, renVars, statVars, pairVars>>

NextCat == CatLookup \/ CatLookupAgain

SpecCat == InitCat /\ [][NextCat]_vars

\* the categories of the table that list extension e
ListedUnder(e) ==
    {Categories[i].name :
        i \in {j \in 1..Len(Categories) : e \in Range(Categories[j].extensions)}}

\* C8: the lookup is total and does not depend on the scan order: the
\* category found for a suffix is a category of the table, it is every
\* category that lists the lower-cased suffix (so no two list it), it is
\* "Others" when none lists it, and a second lookup finds the same one.
C8_CategoryLookupTotal ==
    pc = "done" =>
        /\ category \in {Categories[i].name : i \in 1..Len(Categories)}
        /\ \A c \in ListedUnder(Lower(ext)) : category = c
        /\ ListedUnder(Lower(ext)) = {} => category = "Others"
        /\ result # None => result = category

\* a suffix in upper case that the table lists in lower case was looked up
C8_Witness ==
    /\ pc = "done"
    /\ ext # Lower(ext)
    /\ ListedUnder(Lower(ext)) # {}
    /\ category # "Others"
    /\ result = category

(***************************************************************************)
(* organize_files_by_type                                                  *)
(***************************************************************************)
\* the prefixes of path p, p included
Prefixes(p) == {SubSeq(p, 1, n) : n \in 1..Len(p)}

\* Path.mkdir(parents=True, exist_ok=True) fails when the path or one of
\* its parents exists and is not a directory
MkdirFails(f, p) == \E q \in Prefixes(p) : IsFile(f, q)

\* the file system after a successful mkdir of p and its missing parents
Mkdir(f, p) ==
    [q \in DOMAIN f \cup Prefixes(p) |-> IF q \in DOMAIN f THEN f[q] ELSE Dir]

\* f"{stem}_{counter}{ext}"
SuffixedName(stem, counter, e) == stem \o "_" \o Str(counter) \o e

RECURSIVE NextFree(_, _, _, _, _)
\* lines 334-337: the loop that runs while the destination exists
NextFree(f, dir, stem, e, counter) ==
    IF Exists(f, Join(dir, SuffixedName(stem, counter, e)))
    THEN NextFree(f, dir, stem, e, counter + 1)
    ELSE Join(dir, SuffixedName(stem, counter, e))

\* a destination chosen without looking at what exists
DestinationUnchecked(f, dir, name) == Join(dir, name)
\* lines 331-337: the destination of a file named name in category
\* directory dir: the name itself when it is free, else the first free
\* name with a counter, from 1 on, and the lower-cased suffix
Destination(f, dir, name) ==
    IF Exists(f, Join(dir, name))
    THEN NextFree(f, dir, Stem(name), Lower(Suffix(name)), 1)
    ELSE Join(dir, name)

\* moved_files[category] += 1 on a defaultdict(int)
Increment(counts, k) ==
    [c \in DOMAIN counts \cup {k} |->
        IF c = k THEN (IF k \in DOMAIN counts THEN counts[k] + 1 ELSE 1)
        ELSE counts[c]]

\* shutil.copy2 when the read of the source raises: the destination was
\* opened for writing before the read, and stays, empty
PartialCopy(f, src, dst) == Put(f, dst, File("", f[src].mtime, "ok"))
\* a copy that takes the source away
Move(f, src, dst) == Remove(Put(f, dst, f[src]), src)
\* shutil.copy2: the destination gets the content and the times of the
\* source, which stays
Copy2(f, src, dst) == Put(f, dst, f[src])

\* the files a source tree may hold, each with a content of its own
OrgCandidates == << <<"d", "a.c">>, <<"d", "u", "a.c">>, <<"d", "v", "a.c">>,
                    <<"d", "a_1.c">>, <<"d", "u", "a.C">>, <<"d", "b">> >>

OrgData(p) == Str(CHOOSE i \in 1..Len(OrgCandidates) : OrgCandidates[i] = p)

TargetDir == <<"t">>

\* what <<"t">> may hold before the run: nothing (it does not exist), an
\* empty directory, a category directory with a file of a name the source
\* uses, or a regular file where a category directory would go
Targets == {
    <<>>,
    TargetDir :> Dir,
    (TargetDir :> Dir) @@ (<<"t", "Code">> :> Dir)
        @@ (<<"t", "Code", "a.c">> :> File("old", 1, "ok")),
    (TargetDir :> Dir) @@ (<<"t", "Code">> :> Dir)
        @@ (<<"t", "Code", "a_1.c">> :> File("old", 1, "ok")),
    (TargetDir :> Dir) @@ (<<"t", "Code">> :> Dir)
        @@ (<<"t", "Code", "a.C">> :> File("old", 1, "ok")),
    (TargetDir :> Dir) @@ (<<"t", "Others">> :> File("old", 1, "ok")) }

\* the target directories: outside the source, the source itself, a
\* directory inside the source, and a path that is a regular file
OrgTargetDirs == {TargetDir, RootDir, <<"d", "u">>, PlainFile}

\* the ways one file of the source may fail
OrgModes == {"noread", "ioerr", "noaccess"}

\* a source tree: the files S, those of U with mode m, and their
\* directories
OrgTree(S, U, m) ==
    LET dirs == {RootDir, PlainFile} \cup
                UNION {Prefixes(Parent(p)) : p \in S}
    IN  [p \in dirs \cup S |->
            IF p \in S
            THEN File(OrgData(p), 1, IF p \in U THEN m ELSE "ok")
            ELSE IF p = PlainFile THEN File("X", 1, "ok") ELSE Dir]

\* the trees with at most MaxFiles files, at most one of which fails
OrgTrees ==
    UNION {{OrgTree(S, {}, "ok") @@ t : t \in Targets} \cup
           {OrgTree(S, {p}, m) @@ t : p \in S, m \in OrgModes, t \in Targets} :
            S \in {T \in SUBSET Range(OrgCandidates) :
                        Cardinality(T) <= MaxFiles}}

InitOrgOn(trees) ==
    /\ fs \in trees
    /\ fs0 = fs
    /\ source_dir \in {RootDir, PlainFile, Missing}
    /\ target_dir \in OrgTargetDirs
    /\ target_dir # TargetDir => ~Exists(fs, TargetDir)
    /\ moved_files = <<>>
    /\ walk = <<>>
    /\ op = "organize_files_by_type"
    /\ pc = "start" /\ todo = {} /\ result = None /\ directory = None
    /\ IdleDup /\ IdleRen /\ IdleStat /\ IdleCat /\ IdlePair

InitOrg == InitOrgOn(OrgTrees)

\* The traversal of source_path.rglob('*') is lazy: a directory is listed
\* when the traversal reaches it, so what the loop body creates in a
\* directory not yet listed is met later.  walk is the stack of the
\* directories entered, the last one on top.  For each directory rglob
\* first lists its entries (todo) and yields them one by one, then lists
\* it again for the subdirectories to enter (dirs), one after the other.
Frame(d) == [dir |-> d, listed |-> FALSE, dirs |-> {}]

Top(w) == w[Len(w)]

SetTop(w, frame) == [w EXCEPT ![Len(w)] = frame]

\* a traversal that never leaves a directory it has finished
KeepFrames(w) == w

RECURSIVE Unwind(_)
\* the stack without the directories on top that have nothing left to enter
Unwind(w) ==
    IF w # <<>> /\ Top(w).listed /\ Top(w).dirs = {}
    THEN Unwind(SubSeq(w, 1, Len(w) - 1))
    ELSE w

\* lines 292-314: the existence check of the source, the creation of the
\* target, then the traversal begins; rglob yields nothing when the source
\* is not a directory
OrgStart ==
    /\ pc = "start"
    /\ IF ~PathExists(fs, source_dir)
       THEN /\ result' = NotFound
            /\ pc' = "done"
            /\ UNCHANGED <<fs, todo, walk>>
       ELSE IF MkdirFails(fs, target_dir)
       THEN /\ result' = Caught(IF IsFile(fs, target_dir)
                                THEN "FileExistsError"
                                ELSE "NotADirectoryError")
            /\ pc' = "done"
            /\ UNCHANGED <<fs, todo, walk>>
       ELSE LET made == Mkdir(fs, target_dir)
            IN  /\ fs' = made
                /\ todo' = IterDir(made, source_dir)
                /\ walk' = IF IsDir(made, source_dir)
                           THEN <<Frame(source_dir)>> ELSE <<>>
                /\ pc' = "loop"
                /\ result' = result
    /\ UNCHANGED <<fs0, op, directory, source_dir, target_dir, moved_files,
                   dupVars, renVars, statVars, catVars, pairVars>>

\* lines 314-342: one iteration of the loop, on entry p.  is_file() and
\* the creation of the category directory are outside the try block: when
\* one of them raises, the invocation ends in the handler of line 350.  A
\* copy that raises is skipped, and what it wrote stays.  (cat,
\* category_dir, made and destination are each computed once.)
OrgVisit(p) ==
    /\ pc = "loop"
    /\ p \in todo
    /\ todo' = todo \ {p}
    /\ \E cat \in {CategoryOf(Suffix(Name(p)))} :
       \E category_dir \in {Join(target_dir, cat)} :
       \E made \in {Mkdir(fs, category_dir)} :
       \E destination \in {Destination(made, category_dir, Name(p))} :
           IF IsFileRaises(fs, p)
           THEN /\ result' = Caught("PermissionError")
                /\ pc' = "done"
                /\ UNCHANGED <<fs, moved_files>>
           ELSE IF ~IsFile(fs, p)
           THEN UNCHANGED <<fs, moved_files, pc, result>>
           ELSE IF IsFile(fs, category_dir)
           THEN /\ result' = Caught("FileExistsError")
                /\ pc' = "done"
                /\ UNCHANGED <<fs, moved_files>>
           ELSE IF fs[p].mode = "noread"
           THEN /\ fs' = made
                /\ UNCHANGED <<moved_files, pc, result>>
           ELSE IF fs[p].mode = "ioerr"
           THEN /\ fs' = PartialCopy(made, p, destination)
                /\ UNCHANGED <<moved_files, pc, result>>
           ELSE /\ fs' = Copy2(made, p, destination)
                /\ moved_files' = Increment(moved_files, cat)
                /\ UNCHANGED <<pc, result>>
    /\ UNCHANGED <<fs0, op, directory, source_dir, target_dir, walk, dupVars,
                   renVars, statVars, catVars, pairVars>>

\* rglob: the entries of the directory on top were all yielded; the
\* directory is listed again for its subdirectories
OrgListDirs ==
    /\ pc = "loop"
    /\ todo = {}
    /\ walk # <<>>
    /\ ~Top(walk).listed
    /\ walk' = Unwind(SetTop(walk,
                [Top(walk) EXCEPT
                    !.listed = TRUE,
                    !.dirs = {q \in IterDir(fs, Top(walk).dir) :
                                IsDir(fs, q)}]))
    /\ UNCHANGED <<fs, fs0, op, pc, todo, result, directory, source_dir,
                   target_dir, moved_files, dupVars, renVars, statVars,
                   catVars, pairVars>>

\* rglob: the traversal enters subdirectory q of the directory on top and
\* lists its entries
OrgEnter(q) ==
    /\ pc = "loop"
    /\ todo = {}
    /\ walk # <<>>
    /\ Top(walk).listed
    /\ q \in Top(walk).dirs
    /\ walk' = Append(SetTop(walk, [Top(walk) EXCEPT !.dirs = @ \ {q}]),
                      Frame(q))
    /\ todo' = IterDir(fs, q)
    /\ UNCHANGED <<fs, fs0, op, pc, result, directory, source_dir,
                   target_dir, moved_files, dupVars, renVars, statVars,
                   catVars, pairVars>>

\* lines 344-348: the summary, once the traversal is exhausted
OrgReport ==
    /\ pc = "loop"
    /\ todo = {}
    /\ walk = <<>>
    /\ pc' = "done"
    /\ result' = [status |-> "ok", counts |-> moved_files]
    /\ UNCHANGED <<fs, fs0, op, todo, directory, orgVars, dupVars, renVars,
                   statVars, catVars, pairVars>>

NextOrg ==
    \/ OrgStart
    \/ \E p \in todo : OrgVisit(p)
    \/ OrgListDirs
    \/ \E q \in DOMAIN fs : OrgEnter(q)
    \/ OrgReport

SpecOrg == InitOrg /\ [][NextOrg]_vars

\* the number of source files of the runs followed to their end
FairFiles == 1

InitOrgFair ==
    InitOrgOn({t \in OrgTrees :
                Cardinality(FilesUnder(t, RootDir)) <= FairFiles})

\* the body of the tool has no await: once called, the invocation runs
\* until it returns, so a step that can be taken is taken
SpecOrgFair == InitOrgFair /\ [][NextOrg]_vars /\ WF_vars(NextOrg)

(***************************************************************************)
(* Properties of organize_files_by_type (checked under SpecOrg).           *)
(***************************************************************************)
RECURSIVE SumCounts(_)
\* the sum of the counts of a histogram
SumCounts(hist) ==
    IF DOMAIN hist = {} THEN 0
    ELSE LET k == CHOOSE j \in DOMAIN hist : TRUE
         IN  hist[k] + SumCounts([j \in DOMAIN hist \ {k} |-> hist[j]])

\* the invocation of organize_files_by_type returned its summary
OrgReturned == pc = "done" /\ result.status = "ok"

\* the target held nothing when the invocation began
TargetWasEmpty == \A p \in DOMAIN fs0 : ~IsUnder(target_dir, p)

\* the target is neither the source nor inside it
TargetOutside == target_dir # source_dir /\ ~IsUnder(source_dir, target_dir)

\* the regular files below the source when the invocation began
SourceFiles == FilesUnder(fs0, source_dir)

\* the readable source files that have the name and the category of p
SameDestination(p) ==
    {q \in SourceFiles : Name(q) = Name(p) /\ fs0[q].mode = "ok"}

\* the source files of the category of p whose copy writes a destination
SameCategory(p) ==
    {q \in SourceFiles :
        /\ CategoryOf(Suffix(Name(q))) = CategoryOf(Suffix(Name(p)))
        /\ fs0[q].mode \in {"ok", "ioerr"}}

\* the category directory of source file p
CategoryDir(p) == Join(target_dir, CategoryOf(Suffix(Name(p))))

\* the names "name", "stem_1.ext" .. "stem_(n-1).ext" of n files named as p
ClaimedNames(p, n) ==
    {Name(p)} \cup
    {SuffixedName(Stem(Name(p)), k, Lower(Suffix(Name(p)))) : k \in 1..(n - 1)}

Contents(f, S) == {f[q].data : q \in S}

\* the files of the category directory of p that are copies of the files
\* named as p
CopiesOf(p) ==
    {q \in IterDir(fs, CategoryDir(p)) :
        IsFile(fs, q) /\ fs[q].data \in Contents(fs0, SameDestination(p))}

\* every entry that existed when the invocation began is still there,
\* unchanged
NothingOverwritten ==
    \A p \in DOMAIN fs0 : p \in DOMAIN fs /\ fs[p] = fs0[p]

CategoryNames == {Categories[i].name : i \in 1..Len(Categories)}

\* the count the summary gives for category c
Reported(c) == IF c \in DOMAIN result.counts THEN result.counts[c] ELSE 0

\* the files of the directory of category c that the run created
NewlyCreated(c) ==
    {q \in IterDir(fs, Join(target_dir, c)) :
        IsFile(fs, q) /\ q \notin DOMAIN fs0}

\* C12: the summary gives, for each category, the number of files the run
\* created in that category's directory (a file whose copy failed is not
\* counted), and when every source file is readable and the target is
\* outside the source the counts sum to the number of source files.
C12_CountsArePlacements ==
    OrgReturned =>
        /\ \A c \in CategoryNames :
            Reported(c) = Cardinality(NewlyCreated(c))
        /\ (TargetOutside /\ \A p \in SourceFiles : fs0[p].mode = "ok") =>
            SumCounts(result.counts) = Cardinality(SourceFiles)

\* the source files on which every call succeeds
Readable == {p \in SourceFiles : fs0[p].mode = "ok"}

\* C18: a failure while one file is placed (on the file or on its
\* destination) never aborts the batch: from a source directory and a
\* target that can be made, the run returns its summary, every readable
\* source file has a copy in its category directory, and with the target
\* outside the source exactly the readable files are counted.
C18_FailedPlacementSkipped ==
    (pc = "done" /\ IsDir(fs0, source_dir) /\ ~MkdirFails(fs0, target_dir)) =>
        /\ OrgReturned
        /\ \A p \in Readable :
            \E q \in IterDir(fs, CategoryDir(p)) :
                q \notin DOMAIN fs0 /\ fs[q].data = fs0[p].data
        /\ TargetOutside => SumCounts(result.counts) = Cardinality(Readable)

\* the largest counter a file name of the model can carry
MaxCounter == 2 * MaxFiles + 2

\* name is f"{stem}_{k}{extension}" of source file p, extension as p has it,
\* for the smallest k >= 1 whose name was unused in directory dir of f
SmallestUnused(f, dir, p, name) ==
    \E k \in 1..MaxCounter :
        /\ name = SuffixedName(Stem(Name(p)), k, Suffix(Name(p)))
        /\ ~Exists(f, Join(dir, name))
        /\ \A j \in 1..(k - 1) :
            Exists(f, Join(dir, SuffixedName(Stem(Name(p)), j,
                                             Suffix(Name(p)))))

\* C21: when the iteration on source file p places its copy under another
\* name than p's (p's name was taken in the category directory), that name
\* is <stem>_<k><extension> with the stem and the extension of p, the
\* extension unchanged, and k the smallest integer >= 1 whose name was
\* unused in the category directory.
C21_CollisionName ==
    [][\A p \in todo : \A dst \in DOMAIN fs' \ DOMAIN fs :
            (/\ pc = "loop" /\ todo' = todo \ {p}
             /\ IsFile(fs, p) /\ IsFile(fs', dst)
             /\ Name(dst) # Name(p)) =>
                SmallestUnused(fs, Parent(dst), p, Name(dst))]_vars

PlaceOne(f, p) ==
    LET category_dir == Join(target_dir, CategoryOf(Suffix(Name(p))))
        made == Mkdir(f, category_dir)
    IN  Copy2(made, p, Destination(made, category_dir, Name(p)))

RECURSIVE PlaceAll(_, _)
\* the file system after the loop body on the files S, in one fixed order
PlaceAll(f, S) ==
    IF S = {} THEN f
    ELSE LET p == CHOOSE q \in S : TRUE
         IN  PlaceAll(PlaceOne(f, p), S \ {p})

RECURSIVE WalkDir(_, _)
RECURSIVE WalkDirs(_, _)
\* the file system after the traversal of directory dir of the source: its
\* files first, then its subdirectories, each in one fixed order
WalkDir(f, dir) ==
    WalkDirs(PlaceAll(f, {q \in IterDir(fs0, dir) : IsFile(fs0, q)}),
             {q \in IterDir(fs0, dir) : IsDir(fs0, q)})

WalkDirs(f, D) ==
    IF D = {} THEN f
    ELSE LET q == CHOOSE r \in D : TRUE
         IN  WalkDirs(WalkDir(f, q), D \ {q})

\* the file system after the run that takes the entries of each directory
\* in that fixed order
FixedOrderTree == WalkDir(Mkdir(fs0, target_dir), source_dir)

\* the names in the directory of category c in file system f
NamesIn(f, c) == {Name(q) : q \in IterDir(f, Join(target_dir, c))}

\* C24: organize_files_by_type does not depend on the order in which the
\* source files are visited: whenever a run over readable source files,
\* with the target outside the source, has returned, each category
\* directory holds the names it holds after the run that takes the entries
\* in one fixed order, whatever order this run took.
C24_OrderIndependent ==
    (/\ OrgReturned /\ TargetOutside
     /\ \A p \in SourceFiles : fs0[p].mode = "ok") =>
        \A c \in CategoryNames : NamesIn(fs, c) = NamesIn(FixedOrderTree, c)

(***************************************************************************)
(* batch_rename_files                                                      *)
(***************************************************************************)
RECURSIVE Strip(_)
\* str.strip, for blanks
Strip(s) ==
    IF s = "" THEN ""
    ELSE IF Head(s) = " " THEN Strip(Tail(s))
    ELSE IF CharAt(s, Len(s)) = " " THEN Strip(SubSeq(s, 1, Len(s) - 1))
    ELSE s

RECURSIVE SplitFrom(_, _, _)
\* str.split(','): the pieces of s from position i on, cur being the
\* piece read so far
SplitFrom(s, i, cur) ==
    IF i > Len(s) THEN <<cur>>
    ELSE IF CharAt(s, i) = "," THEN <<cur>> \o SplitFrom(s, i + 1, "")
    ELSE SplitFrom(s, i + 1, cur \o CharAt(s, i))

\* line 375: if file_extensions (None and the empty string are false)
HasExtensions(arg) == arg # None /\ arg # ""

\* line 376: the list of extensions
Extensions(arg) ==
    LET pieces == SplitFrom(arg, 1, "")
    IN  [i \in 1..Len(pieces) |-> Strip(pieces[i])]

\* line 383: the file is passed over by the extension filter
FilteredOut(arg, name) ==
    /\ HasExtensions(arg)
    /\ Suffix(name) \notin Range(Extensions(arg))

\* a substitution made on the lower-cased name
NewNameLowered(pat, repl, old) == ReSub(pat, repl, Lower(old))
\* line 387: new_name
NewName(pat, repl, old) == ReSub(pat, repl, old)

\* line 390: file_path.parent / new_name; joining the empty name gives
\* the directory itself
NewPath(p, new_name) ==
    IF new_name = "" THEN Parent(p) ELSE Join(Parent(p), new_name)

\* a rename that does not look at what exists
NeverBlocked(f, new_path) == FALSE
\* line 393: the rename is given up when the new path exists
RenameBlocked(f, new_path) == Exists(f, new_path)

\* line 396: os.rename moves the entry, replacing what is at the new path
Rename(f, p, new_path) == Remove(Put(f, new_path, f[p]), p)

\* the names a directory may hold, each file with a content of its own
RenNames == <<"a", "b", "Ab", "a.c", "b.c", "bb", "ab">>

RenData(name) == Str(CHOOSE i \in 1..Len(RenNames) : RenNames[i] = name)

\* the ways one file of the directory may fail (name -> mode): none, a
\* file that cannot be renamed, a file on which is_file() raises
RenFailures == {<<>>, "a.c" :> "norename", "b" :> "noaccess"}

\* a directory with the files named in S, those of fail with their mode,
\* and, with sub, a subdirectory u
RenTree(S, sub, fail) ==
    LET files == {Join(RootDir, n) : n \in S}
        dirs == {RootDir} \cup (IF sub THEN {<<"d", "u">>} ELSE {})
    IN  [p \in files \cup dirs \cup {PlainFile} |->
            IF p \in files
            THEN File(RenData(Name(p)), 1,
                      IF Name(p) \in DOMAIN fail THEN fail[Name(p)] ELSE "ok")
            ELSE IF p = PlainFile THEN File("X", 1, "ok") ELSE Dir]

RenTrees ==
    UNION {{RenTree(S, sub, fail) :
                sub \in BOOLEAN,
                fail \in {g \in RenFailures : DOMAIN g \subseteq S}} :
            S \in {T \in SUBSET Range(RenNames) : Cardinality(T) <= MaxFiles}}

RenPatterns == {"a", "b", "x", ""}
RenReplacements == {"", "a", "b", "u"}
RenExtensions == {None, "", ".c", ".h, .c"}

InitRenOn(trees) ==
    /\ fs \in trees
    /\ fs0 = fs
    /\ directory \in {RootDir, PlainFile, Missing}
    /\ pattern \in RenPatterns
    /\ replacement \in RenReplacements
    /\ file_extensions \in RenExtensions
    /\ renamed_files = <<>>
    /\ op = "batch_rename_files"
    /\ pc = "start" /\ todo = {} /\ result = None
    /\ IdleDup /\ IdleOrg /\ IdleStat /\ IdleCat /\ IdlePair

InitRen == InitRenOn(RenTrees)

\* lines 370-380: the existence check, the extension list, then iterdir,
\* which raises when the path is not a directory
RenStart ==
    /\ pc = "start"
    /\ IF ~PathExists(fs, directory)
       THEN /\ result' = NotFound
            /\ pc' = "done"
            /\ todo' = todo
       ELSE IF ~IsDir(fs, directory)
       THEN /\ result' = Caught("NotADirectoryError")
            /\ pc' = "done"
            /\ todo' = todo
       ELSE /\ todo' = IterDir(fs, directory)
            /\ pc' = "loop"
            /\ result' = result
    /\ UNCHANGED <<fs, fs0, op, directory, renVars, dupVars, orgVars, statVars,
                   catVars, pairVars>>

\* lines 380-397: one iteration of the loop, on entry p.  There is no
\* try block in the loop: when is_file() or the rename raises, the
\* invocation ends in the handler of line 404.
RenVisit(p) ==
    /\ pc = "loop"
    /\ p \in todo
    /\ todo' = todo \ {p}
    /\ LET old_name == Name(p)
           new_name == NewName(pattern, replacement, old_name)
           new_path == NewPath(p, new_name)
       IN  IF IsFileRaises(fs, p)
           THEN /\ result' = Caught("PermissionError")
                /\ pc' = "done"
                /\ UNCHANGED <<fs, renamed_files>>
           ELSE IF /\ IsFile(fs, p)
                   /\ ~FilteredOut(file_extensions, old_name)
                   /\ new_name # old_name
                   /\ ~RenameBlocked(fs, new_path)
           THEN IF fs[p].mode = "norename"
                THEN /\ result' = Caught("PermissionError")
                     /\ pc' = "done"
                     /\ UNCHANGED <<fs, renamed_files>>
                ELSE /\ fs' = Rename(fs, p, new_path)
                     /\ renamed_files' = Append(renamed_files,
                                                <<old_name, new_name>>)
                     /\ UNCHANGED <<pc, result>>
           ELSE UNCHANGED <<fs, renamed_files, pc, result>>
    /\ UNCHANGED <<fs0, op, directory, pattern, replacement,
                   file_extensions, dupVars, orgVars, statVars, catVars,
                   pairVars>>

\* lines 399-402: the result
RenReport ==
    /\ pc = "loop"
    /\ todo = {}
    /\ pc' = "done"
    /\ result' = IF renamed_files = <<>>
                 THEN [status |-> "nomatch"]
                 ELSE [status |-> "ok", count |-> Len(renamed_files),
                       renamed |-> renamed_files]
    /\ UNCHANGED <<fs, fs0, op, todo, directory, renVars, dupVars, orgVars,
                   statVars, catVars, pairVars>>

NextRen ==
    \/ RenStart
    \/ \E p \in todo : RenVisit(p)
    \/ RenReport

SpecRen == InitRen /\ [][NextRen]_vars

(***************************************************************************)
(* Properties of batch_rename_files (checked under SpecRen).               *)
(***************************************************************************)
\* the regular files of the directory when the invocation began
RenFiles == {p \in IterDir(fs0, directory) : IsFile(fs0, p)}

\* the name computed for entry p differs from its name and is taken
Collides(f, p) ==
    /\ IsFile(f, p)
    /\ ~FilteredOut(file_extensions, Name(p))
    /\ ReSub(pattern, replacement, Name(p)) # Name(p)
    /\ Exists(f, NewPath(p, ReSub(pattern, replacement, Name(p))))

\* the pattern occurs in the string
Occurs(pat, str) ==
    \E i \in 1..(Len(str) + 1) :
        i + Len(pat) - 1 <= Len(str) /\ SubSeq(str, i, i + Len(pat) - 1) = pat

\* the old names and the new names of the renames made so far
OldNames == {renamed_files[i][1] : i \in DOMAIN renamed_files}
NewNames == {renamed_files[i][2] : i \in DOMAIN renamed_files}

\* C6: in every step that processes a file whose computed name exists at
\* that moment, nothing is renamed or overwritten (the file system is
\* left as it is) and no pair is added to the renames reported.
C6_CollisionSkipped ==
    [][\A p \in todo :
            (pc = "loop" /\ todo' = todo \ {p} /\ Collides(fs, p)) =>
                /\ fs' = fs
                /\ renamed_files' = renamed_files]_vars

\* the invocation returned after a rename, and a file whose computed
\* name was taken by a file that was never renamed kept its name and its
\* content and is not among the renames
C6_Witness ==
    /\ pc = "done" /\ result.status = "ok"
    /\ \E p \in RenFiles :
        LET q == NewPath(p, ReSub(pattern, replacement, Name(p)))
        IN  /\ ~FilteredOut(file_extensions, Name(p))
            /\ q # p
            /\ IsFile(fs0, q) /\ IsFile(fs, q) /\ fs[q] = fs0[q]
            /\ IsFile(fs, p) /\ fs[p] = fs0[p]
            /\ Name(p) \notin OldNames

\* the pairs of the result (none unless it is the list of renames)
ReportedRenames ==
    IF pc = "done" /\ result.status = "ok" THEN result.renamed ELSE <<>>

\* C7: when the pattern occurs in no file name of the directory, the
\* directory is left as it was, no rename is recorded and the result
\* holds no rename pair (it is the "no files matched" one unless a call
\* on a file raised); and a file whose substituted name equals its name
\* keeps its name and content and is in no recorded rename.
C7_NoMatchNoOp ==
    (pc \in {"loop", "done"} /\ IsDir(fs0, directory)) =>
        /\ (\A p \in RenFiles : ~Occurs(pattern, Name(p))) =>
            /\ fs = fs0
            /\ renamed_files = <<>>
            /\ ReportedRenames = <<>>
            /\ pc = "done" => result.status \in {"nomatch", "error"}
        /\ \A p \in RenFiles :
            ReSub(pattern, replacement, Name(p)) = Name(p) =>
                /\ IsFile(fs, p) /\ fs[p] = fs0[p]
                /\ Name(p) \notin OldNames

\* the invocation returned from a directory of two or more files, one of
\* them with an upper-case letter, none of which holds the pattern
C7_Witness ==
    /\ pc = "done" /\ result.status = "nomatch"
    /\ pattern # replacement
    /\ file_extensions = None
    /\ Cardinality(RenFiles) >= 2
    /\ \E p \in RenFiles : Lower(Name(p)) # Name(p)
    /\ \A p \in RenFiles : ~Occurs(pattern, Name(p))

RECURSIVE Replay(_, _, _)
\* the file system f after the renames of the list are made, in order, in
\* directory d; None when one of them cannot be made (the old name is not
\* a file, or the new name is taken)
Replay(f, d, pairs) ==
    IF pairs = <<>> THEN f
    ELSE LET old == Join(d, pairs[1][1])
             new == Join(d, pairs[1][2])
         IN  IF IsFile(f, old) /\ ~Exists(f, new)
             THEN Replay(Rename(f, old, new), d, Tail(pairs))
             ELSE None

\* C13: when batch_rename_files has returned, the renames made in the
\* directory are exactly the pairs of the result, in their order: making
\* the reported renames one after the other on the directory as it was
\* at entry gives the directory as it is, and the number reported is the
\* number of pairs.
C13_ReportIsRenamesApplied ==
    pc = "done" =>
        /\ fs = Replay(fs0, directory, ReportedRenames)
        /\ result.status = "ok" => result.count = Len(result.renamed)

\* the outcome of lines 381-397 on entry p, from file system and set of
\* renames o, when no call raises
RenameOne(o, p) ==
    LET old_name == Name(p)
        new_name == NewName(pattern, replacement, old_name)
        new_path == NewPath(p, new_name)
    IN  IF /\ IsFile(o.fs, p)
           /\ ~FilteredOut(file_extensions, old_name)
           /\ new_name # old_name
           /\ ~RenameBlocked(o.fs, new_path)
        THEN [fs |-> Rename(o.fs, p, new_path),
              renames |-> o.renames \cup {<<old_name, new_name>>}]
        ELSE o

RECURSIVE RenameAll(_, _)
\* the outcome of the loop on the entries S, visited in one fixed order
RenameAll(o, S) ==
    IF S = {} THEN o
    ELSE LET p == CHOOSE q \in S : TRUE
         IN  RenameAll(RenameOne(o, p), S \ {p})

\* the outcome of the invocation when the entries of the directory are
\* visited in that fixed order
FixedOrderOutcome ==
    RenameAll([fs |-> fs0, renames |-> {}], IterDir(fs0, directory))

\* C23: batch_rename_files does not depend on the order in which the
\* entries are visited: whenever an invocation has run its loop to the end,
\* the set of (old, new) renames it applied and the names the directory
\* holds are those of the run that visits the entries in one fixed order,
\* whatever order this invocation took.
C23_OrderIndependent ==
    (pc = "done" /\ result.status \in {"ok", "nomatch"}) =>
        /\ Range(renamed_files) = FixedOrderOutcome.renames
        /\ {Name(q) : q \in IterDir(fs, directory)} =
           {Name(q) : q \in IterDir(FixedOrderOutcome.fs, directory)}

\* C27: whenever batch_rename_files returns a failure result, no file of
\* the directory has been renamed by the call: the directory holds the
\* entries it held at entry, each with its content.
C27_FailureRenamesNothing ==
    (pc = "done" /\ result.status \in {"error", "notfound"}) =>
        \A p \in DOMAIN fs0 \cup DOMAIN fs :
            p \in DOMAIN fs0 /\ p \in DOMAIN fs /\ fs[p] = fs0[p]

(***************************************************************************)
(* get_directory_statistics                                                *)
(***************************************************************************)
\* float('inf'), the mtime the oldest record starts with: a value that is
\* no time stamp, ordered above every time stamp by FloatLess
FloatInf == -1

\* a < b on floats
FloatLess(a, b) == a # FloatInf /\ (b = FloatInf \/ a < b)

\* datetime.fromtimestamp raises OverflowError on float('inf')
FromTimestampFails(t) == t = FloatInf

\* the path '' of the initial records: a path of no name
NoPath == <<>>

\* lines 420-428: the record the traversal starts with
InitialStats ==
    [total_files |-> 0, total_dirs |-> 0, total_size |-> 0,
     file_types |-> <<>>,
     largest_file |-> <<NoPath, 0>>,
     oldest_file |-> <<NoPath, FloatInf>>,
     newest_file |-> <<NoPath, 0>>]

\* a histogram that passes over the files without a suffix
CountSuffixOnly(hist, name) ==
    IF Suffix(name) = "" THEN hist ELSE Increment(hist, Suffix(name))
\* line 435: stats['file_types'][item.suffix or 'No extension'] += 1
CountType(hist, name) ==
    Increment(hist, IF Suffix(name) = "" THEN "No extension" ELSE Suffix(name))

\* lines 432-446: the record after a file at path p, of this size and
\* mtime, is counted
CountFile(st, p, size, mtime) ==
    [st EXCEPT
        !.total_files = @ + 1,
        !.total_size = @ + size,
        !.file_types = CountType(@, Name(p)),
        !.largest_file = IF size > @[2] THEN <<p, size>> ELSE @,
        !.oldest_file = IF FloatLess(mtime, @[2]) THEN <<p, mtime>> ELSE @,
        !.newest_file = IF FloatLess(@[2], mtime) THEN <<p, mtime>> ELSE @]

\* line 461: the number of histogram buckets the report lists
TopCount == 10

\* line 461: the buckets of the report, those of the highest counts
TopTypes(hist) ==
    IF Cardinality(DOMAIN hist) <= TopCount THEN hist
    ELSE LET K == CHOOSE T \in SUBSET DOMAIN hist :
                    /\ Cardinality(T) = TopCount
                    /\ \A k \in T : \A j \in DOMAIN hist \ T :
                            hist[k] >= hist[j]
         IN  [k \in K |-> hist[k]]

StatContents == {"", "X", "XX"}
\* modification times, in seconds since the epoch
StatMTimes == {0, 1, 2}
StatModes == {"ok", "nostat", "noaccess"}
\* the files of a tree: a file of each content and time on which every
\* call succeeds, and a file for each failure
StatEntries ==
    {File(d, t, "ok") : d \in StatContents, t \in StatMTimes}
    \cup {File("X", 1, m) : m \in StatModes \ {"ok"}}
StatPaths == << <<"d", "a.c">>, <<"d", "u", "n">>, <<"d", "b.c">>,
                <<"d", "u", "m.h">>, <<"d", "k">> >>
StatRoots == {RootDir, EmptyDir, PlainFile, Missing}

InitStatOn(trees) ==
    /\ fs \in trees
    /\ fs0 = fs
    /\ directory \in StatRoots
    /\ stats = None
    /\ op = "get_directory_statistics"
    /\ pc = "start" /\ todo = {} /\ result = None
    /\ IdleDup /\ IdleOrg /\ IdleRen /\ IdleCat /\ IdlePair

InitStat == InitStatOn(Trees(StatPaths, StatEntries))

\* lines 416-430: the existence check, the initial record, then the
\* traversal begins
StatStart ==
    /\ pc = "start"
    /\ IF ~PathExists(fs, directory)
       THEN /\ result' = NotFound
            /\ pc' = "done"
            /\ UNCHANGED <<todo, stats>>
       ELSE /\ stats' = InitialStats
            /\ todo' = RGlob(fs, directory)
            /\ pc' = "loop"
            /\ result' = result
    /\ UNCHANGED <<fs, fs0, op, directory, dupVars, orgVars, renVars, catVars,
                   pairVars>>

\* lines 430-449: one iteration of the loop, on entry p.  There is no
\* try block in the loop: when is_file() raises, or when the stat of a
\* file (counted before it) raises, the invocation ends in the handler
\* of line 473.
StatVisit(p) ==
    /\ pc = "loop"
    /\ p \in todo
    /\ todo' = todo \ {p}
    /\ IF IsFileRaises(fs, p)
       THEN /\ result' = Caught("PermissionError")
            /\ pc' = "done"
            /\ stats' = stats
       ELSE IF IsFile(fs, p)
       THEN IF StatRaises(fs, p)
            THEN /\ stats' = [stats EXCEPT !.total_files = @ + 1]
                 /\ result' = Caught("PermissionError")
                 /\ pc' = "done"
            ELSE /\ stats' = CountFile(stats, p, Size(fs, p), fs[p].mtime)
                 /\ UNCHANGED <<pc, result>>
       ELSE /\ stats' = [stats EXCEPT !.total_dirs = @ + 1]
            /\ UNCHANGED <<pc, result>>
    /\ UNCHANGED <<fs, fs0, op, directory, dupVars, orgVars, renVars, catVars,
                   pairVars>>

\* lines 451-471: the report.  The dates of the oldest and of the newest
\* record are formatted with datetime.fromtimestamp.
StatReport ==
    /\ pc = "loop"
    /\ todo = {}
    /\ pc' = "done"
    /\ result' =
        IF FromTimestampFails(stats.oldest_file[2])
            \/ FromTimestampFails(stats.newest_file[2])
        THEN Caught("OverflowError")
        ELSE [status |-> "ok",
              total_files |-> stats.total_files,
              total_dirs |-> stats.total_dirs,
              total_size |-> stats.total_size,
              file_types |-> TopTypes(stats.file_types),
              largest_file |-> stats.largest_file,
              oldest_file |-> stats.oldest_file,
              newest_file |-> stats.newest_file]
    /\ UNCHANGED <<fs, fs0, op, todo, directory, stats, dupVars, orgVars,
                   renVars, catVars, pairVars>>

NextStat ==
    \/ StatStart
    \/ \E p \in todo : StatVisit(p)
    \/ StatReport

SpecStat == InitStat /\ [][NextStat]_vars

(***************************************************************************)
(* Properties of get_directory_statistics (checked under SpecStat).        *)
(***************************************************************************)
\* C9: while the traversal runs and in every successful result,
\* total_files is the sum of the counts of all the histogram buckets,
\* "No extension" included, and the result carries that total.  (The
\* report lists the TopCount largest buckets only.)
C9_TotalIsHistogramSum ==
    /\ pc = "loop" => stats.total_files = SumCounts(stats.file_types)
    /\ (pc = "done" /\ result.status = "ok") =>
        /\ stats.total_files = SumCounts(stats.file_types)
        /\ result.total_files = stats.total_files

\* a successful result over three files, with a "No extension" bucket and
\* a bucket of two files, after a directory was visited
C9_Witness ==
    /\ pc = "done" /\ result.status = "ok"
    /\ result.total_files = 3
    /\ result.total_dirs >= 1
    /\ "No extension" \in DOMAIN stats.file_types
    /\ \E k \in DOMAIN stats.file_types : stats.file_types[k] = 2

\* the "no data" state of an extremal record
NoData == <<"", None>>

\* C10: on an existing empty directory the invocation returns a
\* successful result with zero totals, an empty histogram and the three
\* records in the "no data" state.
C10_EmptyDirectoryReported ==
    (pc = "done" /\ IsDir(fs, directory) /\ RGlob(fs, directory) = {}) =>
        /\ result.status = "ok"
        /\ result.total_files = 0
        /\ result.total_dirs = 0
        /\ result.total_size = 0
        /\ result.file_types = <<>>
        /\ result.largest_file = NoData
        /\ result.oldest_file = NoData
        /\ result.newest_file = NoData

\* the files below the root whose stat raises, and the others
Unstatable == {p \in FilesUnder(fs0, directory) : StatRaises(fs0, p)}
Statable == FilesUnder(fs0, directory) \ Unstatable

RECURSIVE SumSizes(_)
\* the sum of the sizes of the files of a set
SumSizes(S) ==
    IF S = {} THEN 0
    ELSE LET p == CHOOSE q \in S : TRUE
         IN  Size(fs0, p) + SumSizes(S \ {p})

\* C19: a file that cannot be stat'd is not fatal to the traversal: on a
\* directory that holds such a file the invocation returns a successful
\* result, whose totals and histogram count the other files only and
\* whose records do not name the file.
C19_UnstatableOmitted ==
    (pc = "done" /\ IsDir(fs0, directory) /\ Unstatable # {}) =>
        /\ result.status = "ok"
        /\ result.total_files = Cardinality(Statable)
        /\ result.total_size = SumSizes(Statable)
        /\ SumCounts(result.file_types) = Cardinality(Statable)
        /\ \A p \in Unstatable :
            p \notin {result.largest_file[1], result.oldest_file[1],
                      result.newest_file[1]}

\* the files the traversal has visited
Seen == FilesUnder(fs, directory) \ todo

\* C20: each record is the first-visited file among the extreme ones: in
\* every step that counts a file, that file becomes the largest record
\* when every file seen before is smaller and else the record is kept,
\* and likewise the oldest (newest) record for the modification times; so
\* from the first file counted on each record names a file of the tree.
\* The report carries the records as they are then.
C20_RecordsFirstExtremes ==
    [][/\ \A p \in todo :
            (pc = "loop" /\ pc' = "loop" /\ todo' = todo \ {p}
                /\ IsFile(fs, p)) =>
                /\ stats'.largest_file =
                    IF \A q \in Seen : Size(fs, q) < Size(fs, p)
                    THEN <<p, Size(fs, p)>> ELSE stats.largest_file
                /\ stats'.oldest_file =
                    IF \A q \in Seen : fs[q].mtime > fs[p].mtime
                    THEN <<p, fs[p].mtime>> ELSE stats.oldest_file
                /\ stats'.newest_file =
                    IF \A q \in Seen : fs[q].mtime < fs[p].mtime
                    THEN <<p, fs[p].mtime>> ELSE stats.newest_file
       /\ (pc = "loop" /\ pc' = "done" /\ result'.status = "ok") =>
            /\ result'.largest_file = stats.largest_file
            /\ result'.oldest_file = stats.oldest_file
            /\ result'.newest_file = stats.newest_file]_vars

(***************************************************************************)
(* The four tools together: one invocation of any of them.                 *)
(***************************************************************************)
\* the trees of a set that hold fewer than MaxFiles files
Smaller(trees) ==
    {t \in trees : Cardinality(FilesUnder(t, RootDir)) < MaxFiles}

\* the invocations of the four tools, on the smaller trees
InitTools ==
    \/ InitDupOn(Smaller(Trees(DupPaths, DupEntries)))
    \/ InitOrgOn(Smaller(OrgTrees))
    \/ InitRenOn(Smaller(RenTrees))
    \/ InitStatOn(Smaller(Trees(StatPaths, StatEntries)))

NextTools ==
    \/ op = "find_duplicate_files" /\ NextDup
    \/ op = "organize_files_by_type" /\ NextOrg
    \/ op = "batch_rename_files" /\ NextRen
    \/ op = "get_directory_statistics" /\ NextStat

SpecTools == InitTools /\ [][NextTools]_vars

\* the root of the invocation: the directory, or the source directory
RootArg == IF op = "organize_files_by_type" THEN source_dir ELSE directory

\* the kinds of result a tool returns
Statuses == {"found", "none", "ok", "nomatch", "notfound", "error"}

\* C14: no exception leaves any of the four tools: whatever the inputs and
\* whichever file system call fails (the mkdir of the target or of a
\* category directory, iterdir, is_file, stat, the rename, the formatting
\* of a date), what the invocation returns is a success or a failure
\* result, never an exception.
C14_NoExceptionEscapes ==
    pc = "done" => /\ result.status \in Statuses
                   /\ result.status = "error" => result = Caught(result.exc)

\* get_directory_statistics returned the failure result after a call on
\* a file raised in the middle of the traversal
C14_Witness ==
    /\ pc = "done"
    /\ op = "get_directory_statistics"
    /\ result = Caught("PermissionError")
    /\ stats.total_files > 1
    /\ todo # {}

\* C15: an invocation whose root does not exist returns the "does not
\* exist" result and nothing else, in its first step, and leaves the file
\* system as it was: organize_files_by_type makes neither the target nor
\* a category directory.
C15_MissingRootNotFound ==
    ~Exists(fs0, RootArg) =>
        /\ fs = fs0
        /\ pc \in {"start", "done"}
        /\ pc = "done" => result = NotFound

\* organize_files_by_type returned "does not exist" for a missing source,
\* and the target, which did not exist, was not made
C15_Witness ==
    /\ pc = "done"
    /\ op = "organize_files_by_type"
    /\ ~Exists(fs0, source_dir)
    /\ result = NotFound
    /\ ~Exists(fs, target_dir)

\* C16: an invocation whose root is a regular file returns a failure of
\* the "not a directory" kind, never a success result.
C16_FileRootNotADirectory ==
    (pc = "done" /\ IsFile(fs0, RootArg)) =>
        result = Caught("NotADirectoryError")


(***************************************************************************)
(* Two invocations in one server process.  The tools are coroutine         *)
(* functions (async def) that the server's event loop runs on its one      *)
(* thread; the loop takes another invocation only when the one it runs     *)
(* awaits or returns, and the bodies of organize_files_by_type and         *)
(* batch_rename_files hold no await.  An iteration of each loop is taken   *)
(* in two steps here, the choice of the destination and the write to it.   *)
(***************************************************************************)
Calls == {1, 2}

\* organize_files_by_type(source_dir, target_dir)
OrgCall(s, t) ==
    [tool |-> "organize_files_by_type", source_dir |-> s, target_dir |-> t]

\* batch_rename_files(directory, pattern, replacement)
RenCall(d, pat, repl) ==
    [tool |-> "batch_rename_files", directory |-> d, pattern |-> pat,
     replacement |-> repl]

\* the invocations made: both touch the directory t/Code
PairRequests ==
    {OrgCall(RootDir, TargetDir), RenCall(<<"t", "Code">>, "a", "b")}

\* a source directory d with some of the files a.c and b.c, and a target
\* whose directory Code holds nothing or a file a.c
PairTrees ==
    {[p \in {RootDir, TargetDir, <<"t", "Code">>}
            \cup {Join(RootDir, n) : n \in S}
            \cup {Join(<<"t", "Code">>, n) : n \in T} |->
        IF Len(p) = 2 /\ Head(p) = "d" THEN File(Name(p), 1, "ok")
        ELSE IF Len(p) = 3 THEN File("old", 1, "ok")
        ELSE Dir] :
     S \in SUBSET {"a.c", "b.c"}, T \in SUBSET {"a.c"}}

\* an invocation received and not yet begun
Ready(req) ==
    [req |-> req, pc |-> "ready", todo |-> {}, file |-> <<>>, dest |-> <<>>,
     count |-> 0]

InitPair ==
    /\ fs \in PairTrees
    /\ fs0 = fs
    /\ calls \in {[i \in Calls |-> Ready(r[i])] : r \in [Calls -> PairRequests]}
    /\ running = 0
    /\ op = None /\ directory = None
    /\ pc = "start" /\ todo = {} /\ result = None
    /\ IdleDup /\ IdleOrg /\ IdleRen /\ IdleStat /\ IdleCat

\* what two invocations leave alone
pairRest == <<fs0, op, pc, todo, result, directory, dupVars, orgVars,
              renVars, statVars, catVars>>

\* invocations that run on threads of their own
MayStepAnyway(r, i) == TRUE
\* the event loop runs the steps of invocation i when it is idle (r = 0) or
\* is already running i: no statement of lines 283-351 and 354-405 awaits
MayStep(r, i) == r \in {0, i}

\* the root an invocation lists: source_path.rglob('*') on a directory
\* without subdirectories, or path_obj.iterdir()
ListedDir(req) ==
    IF req.tool = "organize_files_by_type" THEN req.source_dir
    ELSE req.directory

\* lines 292-314 and 369-380: the event loop begins invocation i: the
\* existence check, for organize_files_by_type the creation of the
\* target, then the listing
PairStart(i) ==
    /\ MayStep(running, i)
    /\ calls[i].pc = "ready"
    /\ LET req == calls[i].req
           made == IF req.tool = "organize_files_by_type"
                   THEN Mkdir(fs, req.target_dir) ELSE fs
       IN  IF ~PathExists(fs, ListedDir(req))
           THEN /\ fs' = fs
                /\ calls' = [calls EXCEPT ![i].pc = "done"]
                /\ running' = 0
           ELSE /\ fs' = made
                /\ calls' = [calls EXCEPT
                        ![i].pc = "loop",
                        ![i].todo = IterDir(made, ListedDir(req))]
                /\ running' = i
    /\ UNCHANGED pairRest

\* lines 315-337: the category directory is made and the first free name
\* in it is chosen
OrgChoose(i, p) ==
    LET req == calls[i].req
        category_dir == Join(req.target_dir, CategoryOf(Suffix(Name(p))))
        made == Mkdir(fs, category_dir)
    IN  /\ fs' = made
        /\ calls' = [calls EXCEPT
                ![i].todo = @ \ {p},
                ![i].pc = "act",
                ![i].file = p,
                ![i].dest = Destination(made, category_dir, Name(p))]

\* lines 381-394: the new name is computed and the rename is given up
\* when the name is unchanged or taken
RenChoose(i, p) ==
    LET req == calls[i].req
        new_name == NewName(req.pattern, req.replacement, Name(p))
        new_path == NewPath(p, new_name)
    IN  /\ fs' = fs
        /\ calls' = IF new_name # Name(p) /\ ~RenameBlocked(fs, new_path)
                    THEN [calls EXCEPT ![i].todo = @ \ {p},
                                       ![i].pc = "act",
                                       ![i].file = p,
                                       ![i].dest = new_path]
                    ELSE [calls EXCEPT ![i].todo = @ \ {p}]

\* the first part of an iteration of invocation i, on entry p: up to the
\* existence check of the destination
PairChoose(i, p) ==
    /\ MayStep(running, i)
    /\ calls[i].pc = "loop"
    /\ p \in calls[i].todo
    /\ running' = i
    /\ IF ~IsFile(fs, p)
       THEN /\ fs' = fs
            /\ calls' = [calls EXCEPT ![i].todo = @ \ {p}]
       ELSE IF calls[i].req.tool = "organize_files_by_type"
       THEN OrgChoose(i, p)
       ELSE RenChoose(i, p)
    /\ UNCHANGED pairRest

\* lines 339-340 and 396-397: the copy or the rename to the destination
\* chosen; a file that is no longer there makes the call raise, and the
\* invocation ends in its handler
PairAct(i) ==
    /\ MayStep(running, i)
    /\ calls[i].pc = "act"
    /\ LET c == calls[i]
       IN  IF ~IsFile(fs, c.file)
           THEN /\ fs' = fs
                /\ calls' = [calls EXCEPT ![i].pc = "done"]
                /\ running' = 0
           ELSE /\ fs' = IF c.req.tool = "organize_files_by_type"
                         THEN Copy2(fs, c.file, c.dest)
                         ELSE Rename(fs, c.file, c.dest)
                /\ calls' = [calls EXCEPT ![i].pc = "loop",
                                          ![i].count = @ + 1]
                /\ running' = i
    /\ UNCHANGED pairRest

\* lines 344-348 and 399-402: the traversal is exhausted, the invocation
\* returns and the event loop is free
PairReturn(i) ==
    /\ MayStep(running, i)
    /\ calls[i].pc = "loop"
    /\ calls[i].todo = {}
    /\ calls' = [calls EXCEPT ![i].pc = "done"]
    /\ running' = 0
    /\ fs' = fs
    /\ UNCHANGED pairRest

NextPair ==
    \/ \E i \in Calls : PairStart(i)
    \/ \E i \in Calls : \E p \in calls[i].todo : PairChoose(i, p)
    \/ \E i \in Calls : PairAct(i)
    \/ \E i \in Calls : PairReturn(i)

SpecPair == InitPair /\ [][NextPair]_vars

(***************************************************************************)
(* Properties of two invocations (checked under SpecPair).                 *)
(***************************************************************************)
\* C25: collision decisions on a shared directory are serialized: while an
\* invocation is between the existence check of a destination name and
\* its copy or rename to that name, no step of the other invocation is
\* taken, the name is still unused when the copy or rename is made
\* (nothing the other created is overwritten), and the other invocation
\* has not chosen the same name.
C25_DecisionsSerialized ==
    [][\A i \in Calls :
        calls[i].pc = "act" =>
            /\ \A j \in Calls \ {i} : calls'[j] = calls[j]
            /\ ~Exists(fs, calls[i].dest)
            /\ \A j \in Calls \ {i} :
                calls[j].pc = "act" => calls[j].dest # calls[i].dest]_vars

\* two invocations of organize_files_by_type on the same source and
\* target have both returned: the copy of d/a.c made by one is a.c, the
\* copy made by the other took the collision name a_1.c
C25_Witness ==
    /\ calls # <<>>
    /\ \A i \in Calls :
        /\ calls[i].pc = "done"
        /\ calls[i].req.tool = "organize_files_by_type"
        /\ calls[i].count >= 1
    /\ \A n \in {"a.c", "a_1.c"} :
        /\ <<"t", "Code", n>> \notin DOMAIN fs0
        /\ IsFile(fs, <<"t", "Code", n>>)
        /\ fs[<<"t", "Code", n>>].data = fs0[<<"d", "a.c">>].data

=============================================================================
